---- MODULE Spec2Model ----
\* A model of CanvasManager (features/controlLayers/konva/CanvasManager.ts):
\* the render() reconciliation cycle, z-order assignment, the derived fill
\* colour, the transform state machine and the bounding-box task channel.
EXTENDS Naturals, Integers, Sequences, FiniteSets, TLC

VARIABLES
    store,                    \* the snapshot the State Accessor returns (stateApi.getState())
    changes,                  \* number of store changes so far; also the source of fresh references
    prevState,                \* CanvasManager._prevState
    isFirstRender,            \* CanvasManager._isFirstRender
    layers,                   \* CanvasManager.layers          : id -> adapter
    controlAdapters,          \* CanvasManager.controlAdapters : id -> adapter
    regions,                  \* CanvasManager.regions         : id -> adapter
    children,                 \* stage children, bottom to top (a node's z-index is its position)
    nextInst,                 \* number of the next adapter instance constructed
    toolState,                \* value of the toolState channel
    currentFill,              \* value of the currentFill channel
    selectedEntity,           \* value of the selectedEntity channel
    selectedEntityIdentifier, \* value of the selectedEntityIdentifier channel
    lastUpdate,               \* per adapter, the arguments of its latest update() call
    destroyed,                \* the adapters whose destroy() has been invoked
    transformingEntity,       \* value of the transformingEntity channel
    xform,                    \* adapters whose transformer was started and neither committed nor discarded
    applying,                 \* applyTransform() calls suspended at their await
    pass,                     \* the render() invocations: position and locals of each
    tasks,                    \* CanvasManager._tasks : pending task ids
    nextTask,                 \* number of the next task id nanoid() returns
    posted,                   \* task ids posted to the worker
    completed,                \* per task id, the extents its onComplete was invoked with, in order
    firstResponse,            \* per task id, the extents of the first 'extents' message carrying it
    op,                       \* the operation of the last step and how it ended
    fx                        \* the effects of the last step, in order

vars == <<store, changes, prevState, isFirstRender, layers, controlAdapters, regions,
          children, nextInst, toolState, currentFill, selectedEntity,
          selectedEntityIdentifier, lastUpdate, destroyed, transformingEntity, xform, applying, pass,
          tasks, nextTask, posted, completed, firstResponse, op, fx>>

renderVars == <<prevState, isFirstRender, layers, controlAdapters, regions, children,
                nextInst, toolState, currentFill, selectedEntity, selectedEntityIdentifier,
                lastUpdate, destroyed>>
transformVars == <<transformingEntity, xform, applying>>
taskVars == <<tasks, nextTask, posted, completed, firstResponse>>

\* ---------------------------------------------------------------- bounds
MaxChanges == 2
MaxChangesTransform == 1
MaxPasses == 2
MaxChangesConcurrent == 2
MaxApplying == 1
MaxTasks == 2

\* ---------------------------------------------------------------- data
LayerIds == {"L1", "L2"}
ControlAdapterIds == {"C1"}
RegionIds == {"R1"}
InpaintMaskId == "inpaint_mask"

RGBA_WHITE == "white"
Colors == {RGBA_WHITE, "red"}
Tools == {"brush", "move"}
Opacities == {0, 1}

\* A node of the scene graph: <<class, instance number>>. The singletons have
\* instance number 0; an adapter's class is its type tag.
Node(class, n) == <<class, n>>
PreviewNode == Node("preview", 0)
BackgroundNode == Node("background", 0)
InitialImageNode == Node("initial_image", 0)
InpaintMaskNode == Node("inpaint_mask", 0)
BboxView == Node("bbox", 0)
StagingAreaView == Node("staging_area", 0)
NoNode == Node("none", 0)

\* CanvasEntityIdentifier | null
Identifier(id, type) == [id |-> id, type |-> type]
NoId == Identifier("", "none")
Identifiers ==
    {Identifier(i, "layer") : i \in LayerIds}
    \cup {Identifier(i, "control_adapter") : i \in ControlAdapterIds}
    \cup {Identifier(i, "regional_guidance") : i \in RegionIds}
    \cup {Identifier(InpaintMaskId, "inpaint_mask")}

\* An entity state object: v is its reference (the store change that made it).
Entity(id, type, v) == [id |-> id, type |-> type, v |-> v]
NoEntity == Entity("", "none", 0)

\* entities.find((e) => e.id === id) ?? null
Find(ents, id) ==
    IF \E i \in DOMAIN ents : ents[i].id = id
    THEN ents[CHOOSE i \in DOMAIN ents : ents[i].id = id /\ \A j \in DOMAIN ents : ents[j].id = id => i <= j]
    ELSE NoEntity

IdsOf(ents) == {ents[i].id : i \in DOMAIN ents}

\* An entities array: ref is the array's reference, ents its elements in order.
List(ref, ents) == [ref |-> ref, ents |-> ents]

EntitiesOf(ids, type) == [i \in DOMAIN ids |-> Entity(ids[i], type, 0)]

\* The snapshots the store may hold when the manager is constructed.
Snapshot(ls, cas, rgs, sel, fill) ==
    [ref |-> 0,
     layers |-> List(0, EntitiesOf(ls, "layer")),
     controlAdapters |-> List(0, EntitiesOf(cas, "control_adapter")),
     regions |-> List(0, EntitiesOf(rgs, "regional_guidance")),
     inpaintMask |-> Entity(InpaintMaskId, "inpaint_mask", 0),
     selected |-> sel,
     tool |-> [ref |-> 0, selected |-> "brush", fill |-> fill],
     maskOpacity |-> 0,
     initialImage |-> 0,
     bbox |-> 0,
     session |-> [ref |-> 0, isActive |-> FALSE]]

InitialSnapshots ==
    {Snapshot(<<>>, <<>>, <<>>, NoId, "red"),
     Snapshot(<<"L1", "L2">>, <<"C1">>, <<"R1">>, Identifier("L1", "layer"), "red"),
     Snapshot(<<"L1">>, <<>>, <<"R1">>, Identifier(InpaintMaskId, "inpaint_mask"), "red"),
     Snapshot(<<"L1">>, <<"C1">>, <<"R1">>, Identifier("R1", "regional_guidance"), "red")}

\* ---------------------------------------------------------------- the store
\* An entities array after one store change with fresh reference v: an entity
\* appended, one removed, the order reversed, or one entity's state replaced.
ListChanges(list, ids, type, v) ==
    LET ents == list.ents
        n == Len(ents)
    IN  {List(v, Append(ents, Entity(id, type, v))) : id \in ids \ IdsOf(ents)}
        \cup {List(v, [j \in 1..(n - 1) |-> IF j < i THEN ents[j] ELSE ents[j + 1]]) : i \in 1..n}
        \cup {List(v, [j \in 1..n |-> ents[n + 1 - j]]) : i \in (IF n >= 2 THEN {1} ELSE {})}
        \cup {List(v, [ents EXCEPT ![i].v = v]) : i \in 1..n}

\* The snapshots one store change can produce from s. The root and every
\* replaced sub-tree get the fresh reference v; the other sub-trees are shared.
StoreChanges(s, v) ==
    LET root == [s EXCEPT !.ref = v]
    IN  {[root EXCEPT !.layers = l] : l \in ListChanges(s.layers, LayerIds, "layer", v)}
        \cup {[root EXCEPT !.controlAdapters = l] :
                l \in ListChanges(s.controlAdapters, ControlAdapterIds, "control_adapter", v)}
        \cup {[root EXCEPT !.regions = l] :
                l \in ListChanges(s.regions, RegionIds, "regional_guidance", v)}
        \cup {[root EXCEPT !.inpaintMask.v = v]}
        \cup {[root EXCEPT !.selected = i] : i \in (Identifiers \cup {NoId}) \ {s.selected}}
        \cup {[root EXCEPT !.tool = [ref |-> v, selected |-> t, fill |-> s.tool.fill]] :
                t \in Tools \ {s.tool.selected}}
        \cup {[root EXCEPT !.tool = [ref |-> v, selected |-> s.tool.selected, fill |-> c]] :
                c \in Colors \ {s.tool.fill}}
        \cup {[root EXCEPT !.maskOpacity = o] : o \in Opacities \ {s.maskOpacity}}
        \cup {[root EXCEPT !.initialImage = v]}
        \cup {[root EXCEPT !.bbox = v]}
        \cup {[root EXCEPT !.session = [ref |-> v, isActive |-> ~s.session.isActive]]}

\* ---------------------------------------------------------------- collaborators
\* PubSub.publish: the value is replaced and the subscribers are notified only
\* when the channel's equality function says the value changed.
PubSubPublish(cur, new, same) ==
    [value |-> IF same THEN cur ELSE new, notified |-> ~same]

Remove(seq, x) == SelectSeq(seq, LAMBDA y : y # x)
Has(seq, x) == \E i \in DOMAIN seq : seq[i] = x
IndexOf(seq, x) == CHOOSE i \in DOMAIN seq : seq[i] = x

\* stage.add(layer): the node becomes the last (topmost) child.
StageAdd(ch, node) == Append(ch, node)

\* The adapter's destroy(): its konva layer leaves the stage.
NodeDestroy(ch, node) == Remove(ch, node)

\* Konva's node.zIndex(z): the node is taken out of its parent's children and
\* spliced back in at index z (counted from 0; past the end means last).
SetZIndex(ch, node, z) ==
    IF ~Has(ch, node) THEN ch
    ELSE LET rest == Remove(ch, node)
             at == IF z > Len(rest) THEN Len(rest) ELSE z
         IN  [j \in 1..Len(ch) |->
                IF j <= at THEN rest[j] ELSE IF j = at + 1 THEN node ELSE rest[j - 1]]

\* Konva's node.zIndex(): the node's index among its parent's children.
ZIndex(ch, node) == IndexOf(ch, node) - 1

\* ---------------------------------------------------------------- entity resolution
Pair(state, adapter) == [state |-> state, adapter |-> adapter]
NoPair == Pair(NoEntity, NoNode)

MapGet(map, id) == IF id \in DOMAIN map THEN map[id] ELSE NoNode

\* getEntity(identifier), with st the snapshot the State Accessor returns, and
\* L, CA, R, im the manager's layers, controlAdapters, regions and inpaintMask.
getEntity(identifier, st, L, CA, R, im) ==
    LET entityState ==
            CASE identifier.type = "layer" -> Find(st.layers.ents, identifier.id)
              [] identifier.type = "control_adapter" -> Find(st.controlAdapters.ents, identifier.id)
              [] identifier.type = "regional_guidance" -> Find(st.regions.ents, identifier.id)
              [] identifier.type = "inpaint_mask" -> st.inpaintMask
              [] OTHER -> NoEntity
        entityAdapter ==
            CASE identifier.type = "layer" -> MapGet(L, identifier.id)
              [] identifier.type = "control_adapter" -> MapGet(CA, identifier.id)
              [] identifier.type = "regional_guidance" -> MapGet(R, identifier.id)
              [] identifier.type = "inpaint_mask" -> im
              [] OTHER -> NoNode
    IN  IF entityState # NoEntity /\ entityAdapter # NoNode /\ entityState.type = entityAdapter[1]
        THEN Pair(entityState, entityAdapter)
        ELSE NoPair

getSelectedEntity(st, L, CA, R, im) ==
    IF st.selected # NoId THEN getEntity(st.selected, st, L, CA, R, im) ELSE NoPair

getCurrentFill(st, L, CA, R, im) ==
    LET sel == getSelectedEntity(st, L, CA, R, im)
    IN  IF sel # NoPair /\ sel.state.type \in {"regional_guidance", "inpaint_mask"}
        THEN RGBA_WHITE
        ELSE st.tool.fill

\* entityState.fill of a region guide or inpaint mask state object: the
\* colour the object carries, here fixed by which store change made it.
EntityFills == <<"green", RGBA_WHITE, "blue">>
EntityFill(state) == EntityFills[(state.v % 3) + 1]

\* { ...fill, a }: the r, g and b of fill with the alpha a.
WithAlpha(fill, a) == [rgb |-> fill, a |-> a]

\* getBrushPreviewFill() built on getCurrentFill()'s white instead of the
\* entity's fill.
getBrushPreviewFillWhite(st, L, CA, R, im) ==
    LET sel == getSelectedEntity(st, L, CA, R, im)
    IN  IF sel # NoPair /\ sel.state.type \in {"regional_guidance", "inpaint_mask"}
        THEN WithAlpha(RGBA_WHITE, st.maskOpacity)
        ELSE st.tool.fill

getBrushPreviewFill(st, L, CA, R, im) ==
    LET sel == getSelectedEntity(st, L, CA, R, im)
    IN  IF sel # NoPair /\ sel.state.type \in {"regional_guidance", "inpaint_mask"}
        THEN WithAlpha(EntityFill(sel.state), st.maskOpacity)
        ELSE st.tool.fill

\* ---------------------------------------------------------------- render()
\* The manager's fields render() reads and writes, as one record M; a pass's
\* position and locals as a record P; st is the snapshot the State Accessor
\* returns while the step runs. Every operator below runs the code from one
\* point to the next await (or the return) and yields the new M and P.
EmptySnapshot == Snapshot(<<>>, <<>>, <<>>, NoId, "red")
\* phase records how far the pass has come: "structure" until it publishes,
\* "published" from then on, "arranged" once it has assigned the z-order.
IdlePass ==
    [pc |-> "idle", state |-> EmptySnapshot, cur |-> 0, curId |-> "", idx |-> 0, ents |-> <<>>,
     phase |-> "structure"]

Ev(k, n, i) == [k |-> k, n |-> n, i |-> i]
Emit(M, e) == [M EXCEPT !.fx = Append(@, e)]
At(M, P) == [m |-> M, p |-> P]
Channel(name) == Node(name, 0)
StageNode == Node("stage", 0)

\* The adapters of a map after position cursor of its iteration order. A Map
\* iterates in insertion order, and every adapter is inserted once, when it
\* is constructed: the order is that of the instance numbers.
After(map, cursor) == {id \in DOMAIN map : map[id][2] > cursor}
NextIn(map, cursor) ==
    CHOOSE id \in After(map, cursor) : \A o \in After(map, cursor) : map[id][2] <= map[o][2]

MapDelete(map, id) == [k \in DOMAIN map \ {id} |-> map[k]]
MapSet(map, id, node) == [k \in DOMAIN map \cup {id} |-> IF k = id THEN node ELSE map[k]]

\* adapter.destroy(): the adapter's nodes leave the scene graph.
AdapterDestroy(M, node, id) ==
    Emit([M EXCEPT !.children = NodeDestroy(@, node), !.destroyed = @ \cup {node}],
         Ev("destroy", node, id))

\* adapter.update({state, toolState, isSelected}): the adapter is handed the
\* tool state and the selection flag.
UpdateArgs(tool, isSelected) == [toolState |-> tool, isSelected |-> isSelected]
AdapterUpdate(M, node, id, tool, isSelected) ==
    Emit([M EXCEPT !.lastUpdate = MapSet(@, node, UpdateArgs(tool, isSelected))],
         Ev("update", node, id))

\* An adapter constructed on every pass, also when the map holds one for the id.
EnsureAdapterAlways(M, field, class, id) ==
    Emit([M EXCEPT ![field] = MapSet(@, id, Node(class, M.nextInst)),
                   !.children = StageAdd(IF id \in DOMAIN M[field]
                                         THEN NodeDestroy(@, M[field][id]) ELSE @,
                                         Node(class, M.nextInst)),
                   !.nextInst = @ + 1],
         Ev("create", Node(class, M.nextInst), id))

\* let adapter = map.get(id); if (!adapter) { adapter = new Adapter(entity, this);
\* map.set(adapter.id, adapter); this.stage.add(adapter.konva.layer); }
EnsureAdapter(M, field, class, id) ==
    IF id \in DOMAIN M[field] THEN M
    ELSE LET node == Node(class, M.nextInst)
         IN  Emit([M EXCEPT ![field] = MapSet(@, id, node),
                            !.children = StageAdd(@, node),
                            !.nextInst = @ + 1],
                  Ev("create", node, id))

\* The end of render() without the first-invocation flag cleared.
FinishRenderKeepFirst(M, P) == At([M EXCEPT !.prevState = P.state], IdlePass)

\* this._prevState = state; this._isFirstRender = false
FinishRender(M, P) ==
    At([M EXCEPT !.prevState = P.state, !.isFirstRender = FALSE], IdlePass)

RECURSIVE ArrangeList(_, _, _, _, _)
\* for (const e of ents) { map.get(e.id)?.konva.layer.zIndex(++zIndex); }
ArrangeList(ch, ents, map, k, z) ==
    IF k > Len(ents) THEN [ch |-> ch, z |-> z]
    ELSE IF ents[k].id \in DOMAIN map
         THEN ArrangeList(SetZIndex(ch, map[ents[k].id], z + 1), ents, map, k + 1, z + 1)
         ELSE ArrangeList(ch, ents, map, k + 1, z)

\* Z-order assignment that visits the region guides before the control adapters.
arrangeEntitiesRegionsFirst(ch, st, L, CA, R) ==
    LET bg == SetZIndex(ch, BackgroundNode, 1)
        ii == SetZIndex(bg, InitialImageNode, 2)
        l == ArrangeList(ii, st.layers.ents, L, 1, 2)
        r == ArrangeList(l.ch, st.regions.ents, R, 1, l.z)
        c == ArrangeList(r.ch, st.controlAdapters.ents, CA, 1, r.z)
        im == SetZIndex(c.ch, InpaintMaskNode, c.z + 1)
    IN  SetZIndex(im, PreviewNode, c.z + 2)

arrangeEntities(ch, st, L, CA, R) ==
    LET bg == SetZIndex(ch, BackgroundNode, 1)
        ii == SetZIndex(bg, InitialImageNode, 2)
        l == ArrangeList(ii, st.layers.ents, L, 1, 2)
        c == ArrangeList(l.ch, st.controlAdapters.ents, CA, 1, l.z)
        r == ArrangeList(c.ch, st.regions.ents, R, 1, c.z)
        im == SetZIndex(r.ch, InpaintMaskNode, r.z + 1)
    IN  SetZIndex(im, PreviewNode, r.z + 2)

SelectedIdChanged(M, P) == P.state.selected.id # M.prevState.selected.id
ToolChanged(M, P) == P.state.tool.selected # M.prevState.tool.selected

\* Leave the pass at position pc: an await ("layer_update", ...) or the next
\* point of the code to run ("s_regions", ...).
Goto(M, P, pc) == At(M, [P EXCEPT !.pc = pc])

LayersSection(M, P) ==
    IF M.isFirstRender \/ P.state.layers.ref # M.prevState.layers.ref
    THEN At(M, [P EXCEPT !.pc = "s_layer_destroy", !.cur = 0])
    ELSE Goto(M, P, "s_initial_image")

\* for (const canvasLayer of this.layers.values()) {...}, after position P.cur.
LayerDestroyLoop(M, P) ==
    IF After(M.layers, P.cur) = {} THEN At(M, [P EXCEPT !.pc = "s_layer_update", !.idx = 1])
    ELSE LET id == NextIn(M.layers, P.cur)
         IN  IF id \in IdsOf(P.state.layers.ents)
             THEN At(M, [P EXCEPT !.cur = M.layers[id][2]])
             ELSE At(AdapterDestroy(M, M.layers[id], id),
                     [P EXCEPT !.pc = "layer_destroy", !.cur = M.layers[id][2], !.curId = id])

\* for (const entityState of state.layers.entities) {...}, from entity P.idx on.
LayerUpdateLoop(M, P) ==
    IF P.idx > Len(P.state.layers.ents) THEN Goto(M, P, "s_initial_image")
    ELSE LET id == P.state.layers.ents[P.idx].id
             M1 == EnsureAdapter(M, "layers", "layer", id)
         IN  Goto(AdapterUpdate(M1, MapGet(M1.layers, id), id, P.state.tool,
                                P.state.selected.id = id),
                  P, "layer_update")

InitialImageSection(M, P) ==
    IF \/ M.isFirstRender
       \/ P.state.initialImage # M.prevState.initialImage
       \/ P.state.bbox # M.prevState.bbox
       \/ ToolChanged(M, P)
       \/ SelectedIdChanged(M, P)
    THEN Goto(Emit(M, Ev("render", InitialImageNode, "")), P, "initial_image")
    ELSE Goto(M, P, "s_regions")

\* A destroy loop that removes nothing.
DestroyAbsentNever(M, field, ents, cursor) == M

RECURSIVE DestroyAbsent(_, _, _, _)
\* for (const a of map.values()) { if (!entities.find((e) => e.id === a.id)) {
\* a.destroy(); map.delete(a.id); } }
DestroyAbsent(M, field, ents, cursor) ==
    IF After(M[field], cursor) = {} THEN M
    ELSE LET id == NextIn(M[field], cursor)
         IN  IF id \in IdsOf(ents)
             THEN DestroyAbsent(M, field, ents, M[field][id][2])
             ELSE DestroyAbsent([AdapterDestroy(M, M[field][id], id) EXCEPT ![field] = MapDelete(@, id)],
                                field, ents, M[field][id][2])

\* renderRegions(), from its call to its second loop.
renderRegions(M, P, st) ==
    At(DestroyAbsent(M, "regions", st.regions.ents, 0),
       [P EXCEPT !.ents = st.regions.ents, !.idx = 1,
                 !.pc = IF st.regions.ents = <<>> THEN "region_render" ELSE "s_region_loop"])

\* The regions re-rendered only when their own list changed.
RegionsSectionOwnListOnly(M, P, st) ==
    IF M.isFirstRender \/ P.state.regions.ref # M.prevState.regions.ref
    THEN renderRegions(M, P, st)
    ELSE Goto(M, P, "s_mask")

RegionsSection(M, P, st) ==
    IF \/ M.isFirstRender
       \/ P.state.regions.ref # M.prevState.regions.ref
       \/ P.state.maskOpacity # M.prevState.maskOpacity
       \/ ToolChanged(M, P)
       \/ SelectedIdChanged(M, P)
    THEN renderRegions(M, P, st)
    ELSE Goto(M, P, "s_mask")

\* The second loop of renderRegions(), from entity P.idx on.
RegionLoop(M, P) ==
    IF P.idx > Len(P.ents) THEN Goto(M, P, "s_mask")
    ELSE LET id == P.ents[P.idx].id
             M1 == EnsureAdapter(M, "regions", "regional_guidance", id)
         IN  Goto(Emit(M1, Ev("render", MapGet(M1.regions, id), id)), P, "region_render")

InpaintMaskSection(M, P) ==
    IF \/ M.isFirstRender
       \/ P.state.inpaintMask # M.prevState.inpaintMask
       \/ P.state.maskOpacity # M.prevState.maskOpacity
       \/ ToolChanged(M, P)
       \/ SelectedIdChanged(M, P)
    THEN Goto(AdapterUpdate(M, InpaintMaskNode, InpaintMaskId, P.state.tool,
                            P.state.selected.id = InpaintMaskId),
              P, "mask_update")
    ELSE Goto(M, P, "s_control_adapters")

\* renderControlAdapters(), from its call to its second loop.
renderControlAdapters(M, P, st) ==
    At(DestroyAbsent(M, "controlAdapters", st.controlAdapters.ents, 0),
       [P EXCEPT !.ents = st.controlAdapters.ents, !.idx = 1,
                 !.pc = IF st.controlAdapters.ents = <<>> THEN "ca_render" ELSE "s_ca_loop"])

ControlAdaptersSection(M, P, st) ==
    IF \/ M.isFirstRender
       \/ P.state.controlAdapters.ref # M.prevState.controlAdapters.ref
       \/ ToolChanged(M, P)
       \/ SelectedIdChanged(M, P)
    THEN renderControlAdapters(M, P, st)
    ELSE Goto(M, P, "s_publish")

\* The second loop of renderControlAdapters(), from entity P.idx on.
ControlAdapterLoop(M, P) ==
    IF P.idx > Len(P.ents) THEN Goto(M, P, "s_publish")
    ELSE LET id == P.ents[P.idx].id
             M1 == EnsureAdapter(M, "controlAdapters", "control_adapter", id)
         IN  Goto(Emit(M1, Ev("render", MapGet(M1.controlAdapters, id), id)), P, "ca_render")

\* channel.publish(value) on the channel kept in field name of M.
Publish(M, name, value, same) ==
    IF PubSubPublish(M[name], value, same).notified
    THEN Emit(Emit([M EXCEPT ![name] = PubSubPublish(M[name], value, same).value],
                   Ev("publish", Channel(name), "")),
              Ev("notify", Channel(name), ""))
    ELSE Emit([M EXCEPT ![name] = PubSubPublish(M[name], value, same).value],
              Ev("publish", Channel(name), ""))

\* The selectedEntity channel with the default equality (===): the object
\* getSelectedEntity() returns is made for the call and equals no earlier one.
PublishSelectedEntityByReference(M, se) ==
    Publish(M, "selectedEntity", se, M.selectedEntity = NoPair /\ se = NoPair)

PublishSelectedEntity(M, se) ==
    Publish(M, "selectedEntity", se,
            M.selectedEntity.state = se.state /\ M.selectedEntity.adapter = se.adapter)

PublishCurrentFill(M, cf) == Publish(M, "currentFill", cf, M.currentFill = cf)

PublishSection(M, P, st) ==
    Goto(PublishCurrentFill(
            PublishSelectedEntity(
                Publish(Publish(M, "toolState", P.state.tool, M.toolState.ref = P.state.tool.ref),
                        "selectedEntityIdentifier", P.state.selected,
                        M.selectedEntityIdentifier.id = P.state.selected.id),
                getSelectedEntity(st, M.layers, M.controlAdapters, M.regions, InpaintMaskNode)),
            getCurrentFill(st, M.layers, M.controlAdapters, M.regions, InpaintMaskNode)),
         [P EXCEPT !.phase = "published"], "s_bbox")

BboxSection(M, P) ==
    IF \/ M.isFirstRender
       \/ P.state.bbox # M.prevState.bbox
       \/ ToolChanged(M, P)
       \/ P.state.session.isActive # M.prevState.session.isActive
    THEN Goto(Emit(M, Ev("render", BboxView, "")), P, "bbox")
    ELSE Goto(M, P, "s_staging")

StagingSection(M, P) ==
    IF M.isFirstRender \/ P.state.session.ref # M.prevState.session.ref
    THEN Goto(Emit(M, Ev("render", StagingAreaView, "")), P, "staging")
    ELSE Goto(M, P, "s_arrange")

ArrangeSection(M, P, st) ==
    IF \/ M.isFirstRender
       \/ P.state.layers.ref # M.prevState.layers.ref
       \/ P.state.controlAdapters.ref # M.prevState.controlAdapters.ref
       \/ P.state.regions.ref # M.prevState.regions.ref
       \/ P.state.inpaintMask # M.prevState.inpaintMask
       \/ SelectedIdChanged(M, P)
    THEN Goto(Emit([M EXCEPT !.children =
                        arrangeEntities(@, st, M.layers, M.controlAdapters, M.regions)],
                   Ev("arrange", StageNode, "")),
              [P EXCEPT !.phase = "arranged"], "arrange")
    ELSE Goto(M, P, "s_finish")

\* render() with the four publish calls moved up, before the inpaint mask and
\* the control adapters are rendered.
RenderSectionPublishEarly(M, P, st) ==
    CASE P.pc = "s_layers" -> LayersSection(M, P)
      [] P.pc = "s_layer_destroy" -> LayerDestroyLoop(M, P)
      [] P.pc = "s_layer_update" -> LayerUpdateLoop(M, P)
      [] P.pc = "s_initial_image" -> InitialImageSection(M, P)
      [] P.pc = "s_regions" -> RegionsSection(M, P, st)
      [] P.pc = "s_region_loop" -> RegionLoop(M, P)
      [] P.pc = "s_mask" -> InpaintMaskSection(PublishSection(M, P, st).m, PublishSection(M, P, st).p)
      [] P.pc = "s_control_adapters" -> ControlAdaptersSection(M, P, st)
      [] P.pc = "s_ca_loop" -> ControlAdapterLoop(M, P)
      [] P.pc = "s_publish" -> Goto(M, P, "s_bbox")
      [] P.pc = "s_bbox" -> BboxSection(M, P)
      [] P.pc = "s_staging" -> StagingSection(M, P)
      [] P.pc = "s_arrange" -> ArrangeSection(M, P, st)
      [] P.pc = "s_finish" -> FinishRender(M, P)

\* The code of render() from position P.pc to the next position.
RenderSection(M, P, st) ==
    CASE P.pc = "s_layers" -> LayersSection(M, P)
      [] P.pc = "s_layer_destroy" -> LayerDestroyLoop(M, P)
      [] P.pc = "s_layer_update" -> LayerUpdateLoop(M, P)
      [] P.pc = "s_initial_image" -> InitialImageSection(M, P)
      [] P.pc = "s_regions" -> RegionsSection(M, P, st)
      [] P.pc = "s_region_loop" -> RegionLoop(M, P)
      [] P.pc = "s_mask" -> InpaintMaskSection(M, P)
      [] P.pc = "s_control_adapters" -> ControlAdaptersSection(M, P, st)
      [] P.pc = "s_ca_loop" -> ControlAdapterLoop(M, P)
      [] P.pc = "s_publish" -> PublishSection(M, P, st)
      [] P.pc = "s_bbox" -> BboxSection(M, P)
      [] P.pc = "s_staging" -> StagingSection(M, P)
      [] P.pc = "s_arrange" -> ArrangeSection(M, P, st)
      [] P.pc = "s_finish" -> FinishRender(M, P)

Awaits == {"layer_destroy", "layer_update", "initial_image", "region_render", "mask_update",
           "ca_render", "bbox", "staging", "arrange"}

RECURSIVE RunToAwait(_, _)
\* Run the pass on from its position until it is suspended at an await or returns.
RunToAwait(r, st) ==
    IF r.p.pc \in Awaits \cup {"idle"} THEN r
    ELSE RunToAwait(RenderSection(r.m, r.p, st), st)

\* render(), from its call to its first await or its return.
RenderStart(M, st) ==
    IF M.prevState.ref = st.ref /\ ~M.isFirstRender
    THEN At(M, IdlePass)
    ELSE RunToAwait(At(M, [IdlePass EXCEPT !.state = st, !.pc = "s_layers"]), st)

\* The point of render() a pass goes on from when its await completes.
AfterAwait(M, P) ==
    CASE P.pc = "layer_destroy" ->
            At([M EXCEPT !.layers = MapDelete(@, P.curId)], [P EXCEPT !.pc = "s_layer_destroy"])
      [] P.pc = "layer_update" -> At(M, [P EXCEPT !.pc = "s_layer_update", !.idx = @ + 1])
      [] P.pc = "initial_image" -> Goto(M, P, "s_regions")
      [] P.pc = "region_render" ->
            At(M, [P EXCEPT !.pc = IF P.ents = <<>> THEN "s_mask" ELSE "s_region_loop",
                            !.idx = @ + 1])
      [] P.pc = "mask_update" -> Goto(M, P, "s_control_adapters")
      [] P.pc = "ca_render" ->
            At(M, [P EXCEPT !.pc = IF P.ents = <<>> THEN "s_publish" ELSE "s_ca_loop",
                            !.idx = @ + 1])
      [] P.pc = "bbox" -> Goto(M, P, "s_staging")
      [] P.pc = "staging" -> Goto(M, P, "s_arrange")
      [] P.pc = "arrange" -> Goto(M, P, "s_finish")

\* render(), from the await pass P is suspended at to the next one or the return.
RenderResume(M, P, st) == RunToAwait(AfterAwait(M, P), st)

\* ---------------------------------------------------------------- state
NoAdapters == [id \in {} |-> NoNode]

\* A worker message: {type, data: {id, extents}}.
Message(type, id, extents) == [type |-> type, id |-> id, extents |-> extents]
NoMessage == Message("none", 0, "null")

\* The last step: the operation, how it ended, and what it was given: the
\* transform target it found (transform operations), the message (worker).
OpWith(name, result, target, msg) == [name |-> name, result |-> result, target |-> target, msg |-> msg]
Op(name, result) == OpWith(name, result, NoId, NoMessage)

\* The state the constructor leaves. The currentFill and selectedEntity
\* channels are created before this.inpaintMask is assigned, so their first
\* values are computed with no inpaint mask adapter.
Init ==
    /\ store \in InitialSnapshots
    /\ changes = 0
    /\ prevState = store
    /\ isFirstRender = TRUE
    /\ layers = NoAdapters
    /\ controlAdapters = NoAdapters
    /\ regions = NoAdapters
    /\ children = <<PreviewNode, BackgroundNode, InitialImageNode, InpaintMaskNode>>
    /\ nextInst = 1
    /\ toolState = store.tool
    /\ currentFill = getCurrentFill(store, NoAdapters, NoAdapters, NoAdapters, NoNode)
    /\ selectedEntityIdentifier = store.selected
    /\ selectedEntity = getSelectedEntity(store, NoAdapters, NoAdapters, NoAdapters, NoNode)
    /\ lastUpdate = [n \in {} |-> UpdateArgs(store.tool, FALSE)]
    /\ destroyed = {}
    /\ transformingEntity = NoId
    /\ xform = {}
    /\ applying = <<>>
    /\ pass = [i \in 1..MaxPasses |-> IdlePass]
    /\ tasks = {}
    /\ nextTask = 1
    /\ posted = <<>>
    /\ completed = [i \in 0..MaxTasks |-> <<>>]
    /\ firstResponse = [i \in 0..MaxTasks |-> "none"]
    /\ op = Op("constructor", "done")
    /\ fx = <<>>

Mgr ==
    [layers |-> layers, controlAdapters |-> controlAdapters, regions |-> regions,
     children |-> children, nextInst |-> nextInst, prevState |-> prevState,
     isFirstRender |-> isFirstRender, toolState |-> toolState, currentFill |-> currentFill,
     selectedEntity |-> selectedEntity, selectedEntityIdentifier |-> selectedEntityIdentifier,
     lastUpdate |-> lastUpdate, destroyed |-> destroyed, fx |-> <<>>]

Install(M) ==
    /\ layers' = M.layers
    /\ controlAdapters' = M.controlAdapters
    /\ regions' = M.regions
    /\ children' = M.children
    /\ nextInst' = M.nextInst
    /\ prevState' = M.prevState
    /\ isFirstRender' = M.isFirstRender
    /\ toolState' = M.toolState
    /\ currentFill' = M.currentFill
    /\ selectedEntity' = M.selectedEntity
    /\ selectedEntityIdentifier' = M.selectedEntityIdentifier
    /\ lastUpdate' = M.lastUpdate
    /\ destroyed' = M.destroyed
    /\ fx' = M.fx

NoPassRunning == \A i \in DOMAIN pass : pass[i].pc = "idle"
FreeSlot == CHOOSE i \in DOMAIN pass : pass[i].pc = "idle" /\ \A j \in DOMAIN pass : pass[j].pc = "idle" => i <= j

RenderResult(name, r, skipped) ==
    Op(name, IF skipped THEN "skipped" ELSE IF r.p.pc = "idle" THEN "done" ELSE "await")

\* ---------------------------------------------------------------- actions
\* render() is called: run it to its first await or its return.
CallRender(st) ==
    LET r == RenderStart(Mgr, st)
    IN  /\ Install(r.m)
        /\ pass' = [pass EXCEPT ![FreeSlot] = r.p]
        /\ op' = RenderResult("render", r, prevState.ref = st.ref /\ ~isFirstRender)

\* The store changes and notifies its subscriber, render() (initialize()
\* subscribes it). Here a change arrives only when no pass is suspended.
DispatchUpTo(max) ==
    /\ changes < max
    /\ NoPassRunning
    /\ \E s \in StoreChanges(store, changes + 1) :
        /\ store' = s
        /\ changes' = changes + 1
        /\ CallRender(s)
    /\ UNCHANGED <<transformVars, taskVars>>

Dispatch == DispatchUpTo(MaxChanges)

\* render() is called with the store as it is (initialize() does so once).
RenderCall ==
    /\ NoPassRunning
    /\ CallRender(store)
    /\ UNCHANGED <<store, changes, transformVars, taskVars>>

\* The await a pass is suspended at completes: the pass runs to its next
\* await or to its return.
RenderStep ==
    \E i \in DOMAIN pass :
        /\ pass[i].pc # "idle"
        /\ LET r == RenderResume(Mgr, pass[i], store)
           IN  /\ Install(r.m)
               /\ pass' = [pass EXCEPT ![i] = r.p]
               /\ op' = RenderResult("resume", r, FALSE)
        /\ UNCHANGED <<store, changes, transformVars, taskVars>>

NextRender == Dispatch \/ RenderCall \/ RenderStep

Spec == Init /\ [][NextRender]_vars

\* ---------------------------------------------------------------- overlapping passes
\* The snapshots a store change that replaces one entities list can produce.
EntityListChanges(s, v) ==
    LET root == [s EXCEPT !.ref = v]
    IN  {[root EXCEPT !.layers = l] : l \in ListChanges(s.layers, LayerIds, "layer", v)}
        \cup {[root EXCEPT !.controlAdapters = l] :
                l \in ListChanges(s.controlAdapters, ControlAdapterIds, "control_adapter", v)}
        \cup {[root EXCEPT !.regions = l] :
                l \in ListChanges(s.regions, RegionIds, "regional_guidance", v)}

\* An entities list of the store is replaced and render() is notified,
\* whether or not an earlier pass is suspended at an await: the new pass runs
\* to its first await or to its return while the earlier ones wait.
DispatchConcurrent ==
    /\ changes < MaxChangesConcurrent
    /\ \E i \in DOMAIN pass : pass[i].pc = "idle"
    /\ \E s \in EntityListChanges(store, changes + 1) :
        /\ store' = s
        /\ changes' = changes + 1
        /\ CallRender(s)
    /\ UNCHANGED <<transformVars, taskVars>>

NextConcurrent == DispatchConcurrent \/ RenderCall \/ RenderStep

\* The manager constructed over a store that holds two layers, a control
\* adapter and a region guide, the first layer selected.
InitConcurrent ==
    /\ Init
    /\ store = Snapshot(<<"L1", "L2">>, <<"C1">>, <<"R1">>, Identifier("L1", "layer"), "red")

SpecConcurrent == InitConcurrent /\ [][NextConcurrent]_vars

\* ---------------------------------------------------------------- entity lookups
\* A store change that leaves an entity with a type tag other than its
\* list's: a layers entry tagged regional_guidance, a regions entry tagged
\* layer. The types do not rule it out at run time (a rehydrated or
\* hand-edited state).
CorruptChanges(s, v) ==
    LET root == [s EXCEPT !.ref = v]
    IN  {[root EXCEPT !.layers = List(v, [s.layers.ents EXCEPT ![i].type = "regional_guidance",
                                                                 ![i].v = v])] :
            i \in DOMAIN s.layers.ents}
        \cup {[root EXCEPT !.regions = List(v, [s.regions.ents EXCEPT ![i].type = "layer",
                                                                      ![i].v = v])] :
                i \in DOMAIN s.regions.ents}

\* The store changes to a snapshot with a mistagged entity; render() is notified.
DispatchCorrupt ==
    /\ changes < MaxChanges
    /\ NoPassRunning
    /\ \E s \in CorruptChanges(store, changes + 1) :
        /\ store' = s
        /\ changes' = changes + 1
        /\ CallRender(s)
    /\ UNCHANGED <<transformVars, taskVars>>

\* A caller (a tool handler, a component) calls getSelectedEntity().
GetSelectedEntity ==
    /\ op' = Op("getSelectedEntity",
                IF getSelectedEntity(store, layers, controlAdapters, regions, InpaintMaskNode) = NoPair
                THEN "null" ELSE "pair")
    /\ fx' = <<>>
    /\ UNCHANGED <<store, changes, renderVars, transformVars, pass, taskVars>>

NextLookup == Dispatch \/ DispatchCorrupt \/ RenderCall \/ RenderStep \/ GetSelectedEntity

SpecLookup == Init /\ [][NextLookup]_vars

\* ---------------------------------------------------------------- transform
getTransformingLayer(te, L) ==
    CASE te = NoId -> NoNode
      [] te.type = "layer" -> MapGet(L, te.id)
      [] te.type = "inpaint_mask" -> InpaintMaskNode
      [] OTHER -> NoNode

\* An assertion that accepts an adapter of any class.
TransformableAny(adapter) == TRUE

\* layer.adapter instanceof CanvasLayer || layer.adapter instanceof CanvasInpaintMask
Transformable(adapter) == adapter[1] \in {"layer", "inpaint_mask"}

\* this.transformingEntity.publish(value): the channel has the default
\* equality (===); an identifier object made for the call equals no other.
PublishTransformingEntity(value) ==
    LET r == PubSubPublish(transformingEntity, value, value = NoId /\ transformingEntity = NoId)
    IN  [value |-> r.value,
         fx |-> IF r.notified THEN <<Ev("notify", Channel("transformingEntity"), "")>> ELSE <<>>]

\* startTransform() without its getIsTransforming() guard.
startTransformUnguarded ==
    LET layer == getSelectedEntity(store, layers, controlAdapters, regions, InpaintMaskNode)
        pub == PublishTransformingEntity(Identifier(layer.state.id, layer.state.type))
    IN  IF layer # NoPair /\ Transformable(layer.adapter)
        THEN /\ xform' = xform \cup {layer.adapter}
             /\ transformingEntity' = pub.value
             /\ fx' = <<Ev("startTransform", layer.adapter, layer.state.id)>> \o pub.fx
             /\ op' = OpWith("startTransform", "done", transformingEntity, NoMessage)
        ELSE /\ op' = OpWith("startTransform", "assert", transformingEntity, NoMessage)
             /\ fx' = <<>>
             /\ UNCHANGED <<transformingEntity, xform>>

startTransform ==
    LET layer == getSelectedEntity(store, layers, controlAdapters, regions, InpaintMaskNode)
        pub == PublishTransformingEntity(Identifier(layer.state.id, layer.state.type))
    IN  IF transformingEntity # NoId
        THEN /\ op' = OpWith("startTransform", "noop", transformingEntity, NoMessage)
             /\ fx' = <<>>
             /\ UNCHANGED <<transformingEntity, xform>>
        ELSE IF layer # NoPair /\ Transformable(layer.adapter)
        THEN /\ xform' = xform \cup {layer.adapter}
             /\ transformingEntity' = pub.value
             /\ fx' = <<Ev("startTransform", layer.adapter, layer.state.id)>> \o pub.fx
             /\ op' = OpWith("startTransform", "done", transformingEntity, NoMessage)
        ELSE /\ op' = OpWith("startTransform", "assert", transformingEntity, NoMessage)
             /\ fx' = <<>>
             /\ UNCHANGED <<transformingEntity, xform>>

StartTransform ==
    /\ startTransform
    /\ UNCHANGED <<store, changes, renderVars, applying, pass, taskVars>>

\* applyTransform(), from its call to its await, or to its return when there
\* is no transforming layer.
applyTransform ==
    LET layer == getTransformingLayer(transformingEntity, layers)
        pub == PublishTransformingEntity(NoId)
    IN  IF layer # NoNode
        THEN /\ applying' = Append(applying, layer)
             /\ fx' = <<Ev("applyTransform", layer, transformingEntity.id)>>
             /\ op' = OpWith("applyTransform", "await", transformingEntity, NoMessage)
             /\ UNCHANGED <<transformingEntity, xform>>
        ELSE /\ transformingEntity' = pub.value
             /\ fx' = pub.fx
             /\ op' = OpWith("applyTransform", "done", transformingEntity, NoMessage)
             /\ UNCHANGED <<applying, xform>>

ApplyTransform ==
    /\ Len(applying) < MaxApplying
    /\ applyTransform
    /\ UNCHANGED <<store, changes, renderVars, pass, taskVars>>

\* The commit applying[k] awaits has completed: applyTransform() goes on to
\* its return.
applyTransformResume(k) ==
    LET pub == PublishTransformingEntity(NoId)
    IN  /\ xform' = xform \ {applying[k]}
        /\ applying' = [j \in 1..(Len(applying) - 1) |-> IF j < k THEN applying[j] ELSE applying[j + 1]]
        /\ transformingEntity' = pub.value
        /\ fx' = pub.fx
        /\ op' = OpWith("applyTransformResume", "done", transformingEntity, NoMessage)

ApplyTransformResume ==
    /\ \E k \in DOMAIN applying : applyTransformResume(k)
    /\ UNCHANGED <<store, changes, renderVars, pass, taskVars>>

\* cancelTransform() without its publish(null).
cancelTransformKeepsTarget ==
    LET layer == getTransformingLayer(transformingEntity, layers)
    IN  /\ xform' = IF layer # NoNode THEN xform \ {layer} ELSE xform
        /\ fx' = IF layer # NoNode
                  THEN <<Ev("stopTransform", layer, transformingEntity.id)>>
                  ELSE <<>>
        /\ op' = OpWith("cancelTransform", "done", transformingEntity, NoMessage)
        /\ UNCHANGED transformingEntity

cancelTransform ==
    LET layer == getTransformingLayer(transformingEntity, layers)
        pub == PublishTransformingEntity(NoId)
    IN  /\ xform' = IF layer # NoNode THEN xform \ {layer} ELSE xform
        /\ transformingEntity' = pub.value
        /\ fx' = (IF layer # NoNode
                  THEN <<Ev("stopTransform", layer, transformingEntity.id)>>
                  ELSE <<>>) \o pub.fx
        /\ op' = OpWith("cancelTransform", "done", transformingEntity, NoMessage)

CancelTransform ==
    /\ cancelTransform
    /\ UNCHANGED <<store, changes, renderVars, applying, pass, taskVars>>

DispatchTransform == DispatchUpTo(MaxChangesTransform)

NextTransform ==
    \/ DispatchTransform
    \/ RenderCall
    \/ RenderStep
    \/ StartTransform
    \/ ApplyTransform
    \/ ApplyTransformResume
    \/ CancelTransform

SpecTransform == Init /\ [][NextTransform]_vars

\* ---------------------------------------------------------------- bbox tasks
Extents == {"null", "e1", "e2"}
LogLevels == {"debug"}

\* nanoid(): an id no earlier call returned.
nanoid == nextTask

\* requestBbox(data, onComplete); the task id stands for its onComplete too.
requestBbox ==
    /\ tasks' = tasks \cup {nanoid}
    /\ posted' = Append(posted, nanoid)
    /\ nextTask' = nextTask + 1
    /\ op' = Op("requestBbox", "done")
    /\ fx' = <<Ev("_tasks.set", Node("task", nanoid), ""),
               Ev("postMessage", Node("task", nanoid), "get_bbox")>>
    /\ UNCHANGED <<completed, firstResponse>>

RequestBbox ==
    /\ nextTask <= MaxTasks
    /\ requestBbox
    /\ UNCHANGED <<store, changes, renderVars, transformVars, pass>>

\* onmessage without this._tasks.delete(data.id).
onmessageKeepsTask(m) ==
    /\ op' = OpWith("onmessage", "done", NoId, m)
    /\ IF m.type = "extents" /\ m.id \in tasks
       THEN /\ completed' = [completed EXCEPT ![m.id] = Append(@, m.extents)]
            /\ fx' = <<Ev("onComplete", Node("task", m.id), m.extents)>>
            /\ UNCHANGED tasks
       ELSE /\ fx' = IF m.type = "log" THEN <<Ev("workerLog", Node("worker", 0), "")>> ELSE <<>>
            /\ UNCHANGED <<tasks, completed>>
    /\ UNCHANGED <<nextTask, posted>>

\* onmessage without the if (!task) return: the callback of an unknown id is
\* called, which throws.
onmessageUnchecked(m) ==
    /\ IF m.type = "extents"
       THEN /\ op' = OpWith("onmessage", IF m.id \in tasks THEN "done" ELSE "error", NoId, m)
            /\ completed' = IF m.id \in tasks
                             THEN [completed EXCEPT ![m.id] = Append(@, m.extents)]
                             ELSE completed
            /\ tasks' = tasks \ {m.id}
            /\ fx' = <<Ev("onComplete", Node("task", m.id), m.extents)>>
       ELSE /\ op' = OpWith("onmessage", "done", NoId, m)
            /\ fx' = IF m.type = "log" THEN <<Ev("workerLog", Node("worker", 0), "")>> ELSE <<>>
            /\ UNCHANGED <<tasks, completed>>
    /\ UNCHANGED <<nextTask, posted>>

\* this._worker.onmessage
onmessage(m) ==
    /\ op' = OpWith("onmessage", "done", NoId, m)
    /\ IF m.type = "extents" /\ m.id \in tasks
       THEN /\ completed' = [completed EXCEPT ![m.id] = Append(@, m.extents)]
            /\ tasks' = tasks \ {m.id}
            /\ fx' = <<Ev("onComplete", Node("task", m.id), m.extents)>>
       ELSE /\ fx' = IF m.type = "log" THEN <<Ev("workerLog", Node("worker", 0), "")>> ELSE <<>>
            /\ UNCHANGED <<tasks, completed>>
    /\ UNCHANGED <<nextTask, posted>>

\* The worker delivers a message: a log entry, or extents for an id it was
\* sent (in any order, any number of times) or for an id never issued (0).
WorkerMessage ==
    /\ \E m \in {Message("log", 0, "null")}
                \cup {Message("extents", i, e) : i \in 0..(nextTask - 1), e \in Extents} :
        /\ onmessage(m)
        /\ firstResponse' =
                IF m.type = "extents" /\ firstResponse[m.id] = "none"
                THEN [firstResponse EXCEPT ![m.id] = m.extents]
                ELSE firstResponse
    /\ UNCHANGED <<store, changes, renderVars, transformVars, pass>>

\* An onerror handler that rejects the pending tasks: each is completed with
\* null and the table is cleared.
WorkerErrorRejects ==
    /\ op' = Op("onerror", "done")
    /\ fx' = <<Ev("log.error", Node("worker", 0), "Worker error")>>
    /\ tasks' = {}
    /\ completed' = [i \in DOMAIN completed |->
                        IF i \in tasks THEN Append(completed[i], "null") ELSE completed[i]]
    /\ UNCHANGED <<store, changes, renderVars, transformVars, pass, nextTask, posted, firstResponse>>

\* this._worker.onerror
WorkerError ==
    /\ op' = Op("onerror", "done")
    /\ fx' = <<Ev("log.error", Node("worker", 0), "Worker error")>>
    /\ UNCHANGED <<store, changes, renderVars, transformVars, pass, taskVars>>

\* this._worker.onmessageerror
WorkerMessageError ==
    /\ op' = Op("onmessageerror", "done")
    /\ fx' = <<Ev("log.error", Node("worker", 0), "Worker message error")>>
    /\ UNCHANGED <<store, changes, renderVars, transformVars, pass, taskVars>>

NextTasks == RequestBbox \/ WorkerMessage \/ WorkerError \/ WorkerMessageError

SpecTasks == Init /\ [][NextTasks]_vars

\* ================================================================ properties
Range(f) == {f[x] : x \in DOMAIN f}
Adapters == Range(layers) \cup Range(controlAdapters) \cup Range(regions)
PassCompleted == op.name \in {"render", "resume"} /\ op.result = "done"
Injective(f) == \A a, b \in DOMAIN f : f[a] = f[b] => a = b

\* C1. Collection convergence: when every render() pass runs to completion
\* before the next one starts, after each pass the key set of the layers, the
\* controlAdapters and the regions map is exactly the id set of the matching
\* entities list of the snapshot the pass processed (which the pass stored
\* as the previous snapshot), with one adapter per id.
C1_CollectionConvergence ==
    PassCompleted =>
        /\ prevState = store
        /\ DOMAIN layers = IdsOf(prevState.layers.ents)
        /\ DOMAIN controlAdapters = IdsOf(prevState.controlAdapters.ents)
        /\ DOMAIN regions = IdsOf(prevState.regions.ents)
        /\ Injective(layers) /\ Injective(controlAdapters) /\ Injective(regions)

\* A pass has completed that destroyed the adapter of a removed layer and
\* kept the others.
C1_Witness ==
    /\ PassCompleted
    /\ changes >= 1
    /\ DOMAIN layers = {"L2"}
    /\ DOMAIN controlAdapters = {"C1"}
    /\ DOMAIN regions = {"R1"}
    /\ nextInst = 5

\* C2. No-op render: once a pass has completed, a render() call made while
\* the State Accessor returns the snapshot the last pass stored returns at
\* once: no adapter is constructed, destroyed or updated, no singleton view
\* is re-rendered, nothing is published, z-order assignment does not run, and
\* the manager's state is as before.
C2_NoOpRender ==
    [][(op'.name = "render" /\ (PassCompleted \/ ~isFirstRender) /\ prevState.ref = store'.ref)
            => (fx' = <<>> /\ UNCHANGED <<renderVars, pass>>)]_vars

\* render() was called with an unchanged snapshot while adapters exist.
C2_Witness ==
    /\ op = Op("render", "skipped")
    /\ DOMAIN layers = {"L1", "L2"}
    /\ ~isFirstRender

Kept(old, new, ents) ==
    \A id \in DOMAIN old : id \in IdsOf(ents) => id \in DOMAIN new /\ new[id] = old[id]

EntitiesOfClass(st, class) ==
    CASE class = "layer" -> st.layers.ents
      [] class = "control_adapter" -> st.controlAdapters.ents
      [] class = "regional_guidance" -> st.regions.ents

\* C3. Adapter identity preservation: in every step of a render() pass, an
\* id that has an adapter and is in the entities list of the snapshot being
\* processed keeps the very same adapter instance, whether or not its entity
\* state changed; an adapter is destroyed only when the snapshot no longer
\* holds its id, and one is constructed only for an id that has none.
C3_IdentityPreserved ==
    [][/\ Kept(layers, layers', store'.layers.ents)
       /\ Kept(controlAdapters, controlAdapters', store'.controlAdapters.ents)
       /\ Kept(regions, regions', store'.regions.ents)
       /\ \A i \in DOMAIN fx' :
            /\ fx'[i].k = "destroy" => fx'[i].i \notin IdsOf(EntitiesOfClass(store', fx'[i].n[1]))
            /\ fx'[i].k = "create" => fx'[i].n \notin Adapters]_vars

\* A pass has completed on a snapshot in which the state object of layer L1
\* was replaced, and L1 still has the adapter the first pass constructed.
C3_Witness ==
    /\ PassCompleted
    /\ "L1" \in DOMAIN layers
    /\ layers["L1"] = Node("layer", 1)
    /\ Find(prevState.layers.ents, "L1").v >= 1

\* The live adapters of an entities list, in the list's order.
LiveIn(ents, map) ==
    LET live == SelectSeq(ents, LAMBDA e : e.id \in DOMAIN map)
    IN  [i \in DOMAIN live |-> map[live[i].id]]

StackingOrder ==
    <<BackgroundNode, InitialImageNode>>
    \o LiveIn(store.layers.ents, layers)
    \o LiveIn(store.controlAdapters.ents, controlAdapters)
    \o LiveIn(store.regions.ents, regions)
    \o <<InpaintMaskNode, PreviewNode>>

Arranged == fx # <<>> /\ fx[Len(fx)].k = "arrange"

\* C4. Z-order monotonicity: after arrangeEntities() has run, the z-indices
\* increase strictly along background, initial image, layer adapters in
\* snapshot order, control adapters in snapshot order, region adapters in
\* snapshot order, inpaint mask, preview; every live adapter is in that
\* order, and the order stands when the pass has completed.
C4_ZOrderMonotonic ==
    (Arranged \/ PassCompleted) =>
        /\ \A i, j \in DOMAIN StackingOrder :
            i < j => ZIndex(children, StackingOrder[i]) < ZIndex(children, StackingOrder[j])
        /\ Adapters \subseteq Range(StackingOrder)

\* arrangeEntities() has just run on two layers in reversed order, a control
\* adapter and a region guide.
C4_Witness ==
    /\ Arranged
    /\ Len(store.layers.ents) = 2
    /\ store.layers.ents[1].id = "L2"
    /\ DOMAIN layers = {"L1", "L2"}
    /\ layers["L1"][2] < layers["L2"][2]
    /\ DOMAIN controlAdapters = {"C1"}
    /\ DOMAIN regions = {"R1"}

\* The snapshot's selected identifier names a region guide of the snapshot,
\* or the inpaint mask.
SelectionIsMaskLike ==
    \/ store.selected.type = "inpaint_mask"
    \/ /\ store.selected.type = "regional_guidance"
       /\ store.selected.id \in IdsOf(store.regions.ents)

FillRule(fill) ==
    /\ SelectionIsMaskLike => fill = RGBA_WHITE
    /\ (store.selected = NoId \/ store.selected.type = "layer") => fill = store.tool.fill

\* C5. Fill-colour rule, as claimed: at any point of the manager's life,
\* getCurrentFill() is opaque white whenever the selected identifier names a
\* region guide or the inpaint mask, and the tool's fill whenever it names a
\* layer or nothing; the constructor's call (the first value of the
\* currentFill channel) included.
C5_FillRuleAlways ==
    /\ FillRule(getCurrentFill(store, layers, controlAdapters, regions, InpaintMaskNode))
    /\ op.name = "constructor" => FillRule(currentFill)

\* The current selection is absent, has no entity state or no live adapter,
\* or is a control adapter or a region guide.
NoTransformableSelection ==
    \/ store.selected = NoId
    \/ store.selected.type \in {"control_adapter", "regional_guidance"}
    \/ /\ store.selected.type = "layer"
       /\ \/ store.selected.id \notin IdsOf(store.layers.ents)
          \/ store.selected.id \notin DOMAIN layers

\* C6. startTransform() called while idle with no transformable selection
\* raises the assertion failure: the state stays idle and no adapter's
\* begin-transform operation is invoked.
C6_StartTransformAsserts ==
    (op.name = "startTransform" /\ op.target = NoId /\ NoTransformableSelection) =>
        /\ op.result = "assert"
        /\ transformingEntity = NoId
        /\ fx = <<>>

\* startTransform() failed with a control adapter selected whose adapter is live.
C6_Witness ==
    /\ op.name = "startTransform"
    /\ op.result = "assert"
    /\ store.selected = Identifier("C1", "control_adapter")
    /\ "C1" \in DOMAIN controlAdapters

\* C7. startTransform() called while transforming is a no-op: the target is
\* the one it found, no begin-transform operation is invoked, nothing is
\* published and no failure is raised, whatever the selection is.
C7_StartTransformIdempotent ==
    (op.name = "startTransform" /\ op.target # NoId) =>
        /\ op.result = "noop"
        /\ transformingEntity = op.target
        /\ fx = <<>>

\* startTransform() was called while layer L1 is the target and the selection
\* is another entity, one with no transformable adapter.
C7_Witness ==
    /\ op.name = "startTransform"
    /\ op.target = Identifier("L1", "layer")
    /\ store.selected = Identifier("C1", "control_adapter")

\* C8. applyTransform() and cancelTransform() called while idle invoke no
\* commit or discard operation and notify no subscriber; and when
\* cancelTransform() has returned or applyTransform() has completed, the
\* transform state is idle.
C8_ApplyCancel ==
    /\ (op.name \in {"applyTransform", "cancelTransform"} /\ op.target = NoId) => fx = <<>>
    /\ op.name = "cancelTransform" => transformingEntity = NoId
    /\ (op.name \in {"applyTransform", "applyTransformResume"} /\ op.result = "done")
            => transformingEntity = NoId

\* cancelTransform() has discarded the transform of layer L1 while an
\* applyTransform() of it is suspended.
C8_Witness ==
    /\ op.name = "cancelTransform"
    /\ op.target = Identifier("L1", "layer")
    /\ applying # <<>>
    /\ transformingEntity = NoId

Issued == 1..(nextTask - 1)

C10_UnknownIdIgnored ==
    [][(op'.name = "onmessage" /\ op'.msg.type = "extents" /\ op'.msg.id \notin tasks)
            => (fx' = <<>> /\ tasks' = tasks /\ completed' = completed /\ op'.result = "done")]_vars

\* A message for an id never issued arrived while a task is pending.
C10_Witness ==
    /\ op.name = "onmessage"
    /\ op.msg = Message("extents", 0, "e1")
    /\ tasks = {1}
    /\ fx = <<>>

\* The last step was a worker error or a worker 'log' message.
WorkerFaultOrLog(o) ==
    \/ o.name \in {"onerror", "onmessageerror"}
    \/ o.name = "onmessage" /\ o.msg.type = "log"

\* C11. Worker errors (onerror, onmessageerror) and worker 'log' messages
\* leave the pending task table as it is and invoke no completion callback;
\* a callback is invoked only by an 'extents' message carrying the id of a
\* pending task, with that message's extents.
C11_WorkerErrorsKeepTasks ==
    [][/\ WorkerFaultOrLog(op') =>
            /\ tasks' = tasks
            /\ completed' = completed
            /\ \A i \in DOMAIN fx' : fx'[i].k # "onComplete"
       /\ completed' # completed =>
            /\ op'.name = "onmessage" /\ op'.msg.type = "extents" /\ op'.msg.id \in tasks
            /\ completed' = [completed EXCEPT ![op'.msg.id] = Append(@, op'.msg.extents)]]_vars

\* A worker error arrived while task 2 is pending and task 1 is completed.
C11_Witness ==
    /\ op.name = "onerror"
    /\ tasks = {2}
    /\ completed[1] = <<"e1">>
    /\ completed[2] = <<>>

\* The entity state and the adapter the selected identifier leads to.
SelectedState ==
    CASE store.selected.type = "layer" -> Find(store.layers.ents, store.selected.id)
      [] store.selected.type = "control_adapter" -> Find(store.controlAdapters.ents, store.selected.id)
      [] store.selected.type = "regional_guidance" -> Find(store.regions.ents, store.selected.id)
      [] store.selected.type = "inpaint_mask" -> store.inpaintMask
      [] OTHER -> NoEntity

SelectedAdapter ==
    CASE store.selected.type = "layer" -> MapGet(layers, store.selected.id)
      [] store.selected.type = "control_adapter" -> MapGet(controlAdapters, store.selected.id)
      [] store.selected.type = "regional_guidance" -> MapGet(regions, store.selected.id)
      [] store.selected.type = "inpaint_mask" -> InpaintMaskNode
      [] OTHER -> NoNode

TypeMismatch ==
    /\ SelectedState # NoEntity
    /\ SelectedAdapter # NoNode
    /\ SelectedState.type # SelectedAdapter[1]

\* C12. Entity resolution fails loudly on a type mismatch, as claimed: a
\* getSelectedEntity() call that finds an entity state and an adapter whose
\* type tags differ raises an assertion failure, and does not return null.
C12_MismatchFailsLoudly ==
    (op.name = "getSelectedEntity" /\ TypeMismatch) => op.result = "assert"

\* C13. Transform-target invariant, as claimed: whenever the transform
\* target is set, it has type layer or inpaint_mask and getTransformingLayer()
\* resolves it to a live adapter: the inpaint mask, or a layer adapter that
\* is in the layers map.
C13_TargetResolves ==
    transformingEntity # NoId =>
        /\ transformingEntity.type \in {"layer", "inpaint_mask"}
        /\ getTransformingLayer(transformingEntity, layers) # NoNode
        /\ transformingEntity.type = "layer" => transformingEntity.id \in DOMAIN layers

\* The step changes the membership of the layers collection: an adapter is
\* constructed or destroyed, or an entry leaves the map.
LayersMutated ==
    \/ DOMAIN layers' # DOMAIN layers
    \/ \E k \in DOMAIN fx' : fx'[k].k \in {"create", "destroy"} /\ fx'[k].n[1] = "layer"

\* C14. No interleaving of structural mutations, as claimed: while a pass is
\* between the first and the last structural mutation of its reconciliation
\* of a collection, no other pass creates, destroys or removes an adapter of
\* that collection. Stated for the layers: a pass suspended at
\* 'await canvasLayer.destroy()' has destroyed an adapter and has yet to
\* remove it from the map.
C14_NoInterleaving ==
    [][\A i, j \in DOMAIN pass :
            (i # j /\ pass[i].pc = "layer_destroy" /\ pass'[i] = pass[i] /\ pass'[j] # pass[j])
                => ~LayersMutated]_vars

\* C15. Convergence under overlapping passes, as claimed: once every pass
\* has completed, the key set of each adapter map is the id set of the
\* matching list of the latest snapshot.
C15_ConvergenceOverlapping ==
    (NoPassRunning /\ PassCompleted) =>
        /\ DOMAIN layers = IdsOf(store.layers.ents)
        /\ DOMAIN controlAdapters = IdsOf(store.controlAdapters.ents)
        /\ DOMAIN regions = IdsOf(store.regions.ents)

\* The step notified the subscribers of the channel.
Notified(name) == \E k \in DOMAIN fx' : fx'[k] = Ev("notify", Channel(name), "")

\* C16. Publication notifies only on change: in a render() pass, the
\* subscribers of toolState, selectedEntityIdentifier, selectedEntity and
\* currentFill are notified only when the published value differs from the
\* channel's value under the channel's equality: the reference (toolState,
\* currentFill), the id (selectedEntityIdentifier), the state and the adapter
\* references (selectedEntity). A snapshot change that keeps the selected id,
\* a reordering of the layers among them, notifies no subscriber of the
\* selection identifier.
C16_NotifyOnlyOnChange ==
    [][op'.name \in {"render", "resume"} =>
        /\ Notified("toolState") => toolState'.ref # toolState.ref
        /\ Notified("selectedEntityIdentifier") =>
                selectedEntityIdentifier'.id # selectedEntityIdentifier.id
        /\ Notified("selectedEntity") =>
                \/ selectedEntity'.state # selectedEntity.state
                \/ selectedEntity'.adapter # selectedEntity.adapter
        /\ Notified("currentFill") => currentFill' # currentFill]_vars

\* A pass has completed over a snapshot that only reversed the layers list:
\* the adapters are the instances of the first pass and the published
\* selection is as it was.
C16_Witness ==
    /\ PassCompleted
    /\ changes = 1
    /\ [i \in DOMAIN store.layers.ents |-> store.layers.ents[i].id] = <<"L2", "L1">>
    /\ layers = [id \in {"L1", "L2"} |-> Node("layer", IF id = "L1" THEN 1 ELSE 2)]
    /\ selectedEntityIdentifier = Identifier("L1", "layer")
    /\ selectedEntity = Pair(Entity("L1", "layer", 0), Node("layer", 1))

Structural(e) == e.k \in {"create", "destroy"}
OnAdapter(e) == e.k \in {"create", "destroy", "update", "render"}

\* C17. Ordering inside one render() pass: the pass constructs and destroys
\* adapters (and removes map entries) only before it publishes; it publishes
\* before it assigns the z-order; and after the z-order assignment it has no
\* further effect on an adapter: the next thing it does is to store its
\* snapshot as the previous one and clear the first-invocation flag.
C17_PassOrdering ==
    [][\A i \in DOMAIN pass :
        pass'[i] # pass[i] =>
            /\ \A a, b \in DOMAIN fx' :
                /\ (Structural(fx'[a]) /\ fx'[b].k = "publish") => a < b
                /\ (fx'[a].k = "publish" /\ fx'[b].k = "arrange") => a < b
                /\ (fx'[a].k = "arrange" /\ OnAdapter(fx'[b])) => b < a
            /\ pass[i].phase # "structure" =>
                /\ \A a \in DOMAIN fx' : ~Structural(fx'[a])
                /\ DOMAIN layers' = DOMAIN layers
                /\ DOMAIN controlAdapters' = DOMAIN controlAdapters
                /\ DOMAIN regions' = DOMAIN regions
            /\ pass[i].phase = "arranged" =>
                /\ fx' = <<>>
                /\ UNCHANGED <<layers, controlAdapters, regions, children>>
                /\ prevState' = pass[i].state
                /\ ~isFirstRender'
                /\ pass'[i].pc = "idle"]_vars

\* A pass that destroyed an adapter and constructed none has published, has
\* assigned the z-order and has completed.
C17_Witness ==
    /\ PassCompleted
    /\ op.name = "resume"
    /\ changes = 2
    /\ nextInst = 5
    /\ DOMAIN layers = {"L1", "L2"}
    /\ DOMAIN controlAdapters = {}
    /\ DOMAIN regions = {}

\* How far along render() a position is: 0 before the call, 9 after the return.
Rank(pc) ==
    CASE pc \in {"layer_destroy", "layer_update"} -> 1
      [] pc = "initial_image" -> 2
      [] pc = "region_render" -> 3
      [] pc = "mask_update" -> 4
      [] pc = "ca_render" -> 5
      [] pc = "bbox" -> 6
      [] pc = "staging" -> 7
      [] pc = "arrange" -> 8

\* The await the running pass is suspended at ("idle" when none runs).
Suspended(ps) ==
    IF \A i \in DOMAIN ps : ps[i].pc = "idle" THEN "idle"
    ELSE ps[CHOOSE i \in DOMAIN ps : ps[i].pc # "idle"].pc

PreRank == IF Suspended(pass) = "idle" THEN 0 ELSE Rank(Suspended(pass))
PostRank == IF Suspended(pass') = "idle" THEN 9 ELSE Rank(Suspended(pass'))

\* The mask opacity, the selected tool or the selected id of the snapshot the
\* pass processes differs from the previous snapshot's.
CrossTrigger ==
    \/ store'.maskOpacity # prevState.maskOpacity
    \/ store'.tool.selected # prevState.tool.selected
    \/ store'.selected.id # prevState.selected.id

RegionRendered == \E k \in DOMAIN fx' : fx'[k].k = "render" /\ fx'[k].n[1] = "regional_guidance"
MaskUpdated == \E k \in DOMAIN fx' : fx'[k] = Ev("update", InpaintMaskNode, InpaintMaskId)

\* C18. Cross-dependency triggers: a pass whose snapshot differs from the
\* previous one in the mask opacity, the selected tool or the selected id
\* does not get past the regions without awaiting renderRegions() (which
\* renders the region adapters) nor past the inpaint mask without awaiting
\* its update, also when the regions list and the inpaint mask state are the
\* previous snapshot's objects. A pass other than the first with none of
\* these differences re-renders the regions only if the regions list was
\* replaced and updates the inpaint mask only if its state was replaced.
C18_CrossTriggers ==
    [][(op'.name \in {"render", "resume"} /\ op'.result # "skipped") =>
        /\ (CrossTrigger /\ PreRank < 3 /\ PostRank >= 3) =>
                /\ Suspended(pass') = "region_render"
                /\ store'.regions.ents # <<>> => RegionRendered
        /\ (CrossTrigger /\ PreRank < 4 /\ PostRank >= 4) =>
                /\ Suspended(pass') = "mask_update"
                /\ MaskUpdated
        /\ (~isFirstRender /\ ~CrossTrigger /\ store'.regions.ref = prevState.regions.ref) =>
                /\ ~RegionRendered
                /\ Suspended(pass') # "region_render"
                /\ regions' = regions
        /\ (~isFirstRender /\ ~CrossTrigger /\ store'.inpaintMask = prevState.inpaintMask) =>
                /\ ~MaskUpdated
                /\ Suspended(pass') # "mask_update"]_vars

\* A pass over a snapshot that changed only the mask opacity has rendered the
\* region guide and awaits the inpaint mask's update.
C18_Witness ==
    /\ Suspended(pass) = "mask_update"
    /\ ~isFirstRender
    /\ store.maskOpacity # prevState.maskOpacity
    /\ store.regions.ref = prevState.regions.ref
    /\ store.inpaintMask = prevState.inpaintMask
    /\ store.tool.selected = prevState.tool.selected
    /\ store.selected = prevState.selected
    /\ DOMAIN regions = {"R1"}
    /\ fx = <<Ev("update", InpaintMaskNode, InpaintMaskId)>>

\* C19. applyTransform() commits once and holds the state, as claimed: a call
\* made while transforming invokes the target adapter's commit operation
\* exactly once and suspends on it; for as long as that commit has not
\* completed the state is transforming, with the target the call found;
\* when it has completed the state is idle.
C19_ApplyHoldsState ==
    /\ (op.name = "applyTransform" /\ op.target # NoId) =>
            /\ op.result = "await"
            /\ Cardinality({k \in DOMAIN fx : fx[k].k = "applyTransform"}) = 1
    /\ op.name = "applyTransformResume" =>
            /\ transformingEntity = NoId
            /\ \A k \in DOMAIN fx : fx[k].k # "applyTransform"
    /\ \A k \in DOMAIN applying :
            /\ transformingEntity # NoId
            /\ transformingEntity.type = applying[k][1]
            /\ getTransformingLayer(transformingEntity, layers) \in {applying[k], NoNode}

\* The selection resolves to a region guide or to the inpaint mask: the
\* entity state is in the snapshot and its adapter exists.
MaskLikeResolved ==
    \/ store.selected.type = "inpaint_mask"
    \/ /\ store.selected.type = "regional_guidance"
       /\ store.selected.id \in IdsOf(store.regions.ents)
       /\ store.selected.id \in DOMAIN regions

BrushPreviewFill == getBrushPreviewFill(store, layers, controlAdapters, regions, InpaintMaskNode)
CurrentFill == getCurrentFill(store, layers, controlAdapters, regions, InpaintMaskNode)

\* C20, as claimed. Brush-preview fill: getBrushPreviewFill() equals
\* getCurrentFill() when the selection is not a region guide or the inpaint
\* mask; when the selection resolves to one of them it is getCurrentFill()'s
\* colour with the alpha replaced by settings.maskOpacity.
C20_BrushPreviewOfCurrentFill ==
    /\ store.selected.type \notin {"regional_guidance", "inpaint_mask"} => BrushPreviewFill = CurrentFill
    /\ MaskLikeResolved => BrushPreviewFill = WithAlpha(CurrentFill, store.maskOpacity)

\* C20, amended. getBrushPreviewFill() equals getCurrentFill() whenever the
\* selection does not resolve to a region guide or the inpaint mask; when it
\* does, it is the fill of the selected entity's state, not getCurrentFill()'s
\* white, with the alpha replaced by settings.maskOpacity.
C20_BrushPreviewOfEntityFill ==
    IF MaskLikeResolved
    THEN BrushPreviewFill = WithAlpha(EntityFill(SelectedState), store.maskOpacity)
    ELSE BrushPreviewFill = CurrentFill

\* The region guide is selected and has its adapter, the mask opacity has
\* been changed: the preview is the region's green at the new opacity, the
\* current fill is white.
C20_Witness ==
    /\ store.selected = Identifier("R1", "regional_guidance")
    /\ "R1" \in DOMAIN regions
    /\ store.maskOpacity = 1
    /\ BrushPreviewFill = WithAlpha("green", 1)
    /\ CurrentFill = RGBA_WHITE

\* The arguments a layer adapter would be handed by an update() made from the
\* snapshot the last pass processed.
CurrentArgs(id) == UpdateArgs(prevState.tool, prevState.selected.id = id)
LayerArgsCurrent(id) ==
    /\ layers[id] \in DOMAIN lastUpdate
    /\ lastUpdate[layers[id]] = CurrentArgs(id)

\* C21: after any completed render() pass, the selection flag and the tool
\* state every layer adapter was handed by its most recent update() are those
\* of the pass's snapshot: the flag tells whether the snapshot's selected id is
\* the layer's id, also when only the selection or the tool changed and the
\* layers list is the same array as before.
C21_SelectionFlagCurrent ==
    PassCompleted => \A id \in DOMAIN layers : LayerArgsCurrent(id)

\* Effect k of the step is a call on an adapter whose destroy() was invoked
\* before it: in an earlier step, or earlier in this one.
LifecycleCalls == {"destroy", "update", "render"}
DestroyedBefore(k) ==
    \/ fx'[k].n \in destroyed
    \/ \E j \in 1..(k - 1) : fx'[j].k = "destroy" /\ fx'[j].n = fx'[k].n
CallAfterDestroy ==
    \E k \in DOMAIN fx' : fx'[k].k \in LifecycleCalls /\ DestroyedBefore(k)

\* C22: under any interleaving of render() passes at their awaits, destroy()
\* is invoked at most once on an adapter instance, and no update() or render()
\* call is started on an instance after its destroy() was invoked.
C22_AdapterLifecycle == [][~CallAfterDestroy]_vars

\* C23: under any interleaving of startTransform, cancelTransform and an
\* applyTransform suspended at its await, whenever no transform operation is
\* in progress the adapters whose transformer has been started and neither
\* committed nor discarded are none when the state is idle, and exactly the
\* target's adapter when the state is transforming.
C23_TransformAgreement ==
    applying = <<>> =>
        IF transformingEntity = NoId
        THEN xform = {}
        ELSE xform = {getTransformingLayer(transformingEntity, layers)}

\* The step is a render() call made with the store as the last pass left it,
\* when every pass has completed.
FollowingRender ==
    /\ NoPassRunning /\ PassCompleted
    /\ store' = store
    /\ op'.name = "render"

\* C24: the stored previous snapshot never regresses under overlapping
\* passes: no step stores a snapshot older than the one stored before it;
\* when all passes have completed the stored snapshot is the newest one a
\* pass processed, the store's; and a render() that follows with the store
\* unchanged takes the no-op fast path.
C24_PrevStateNeverRegresses ==
    [][/\ prevState'.ref >= prevState.ref
       /\ (NoPassRunning' /\ PassCompleted') => prevState'.ref = store'.ref
       /\ FollowingRender => op'.result = "skipped"]_vars
====
